---- MODULE Spec2Model ----
(***************************************************************************)
(* State-machine model of the interview pipeline:                          *)
(*   - the Session Bridge (call_session_agent and the adk_session_store    *)
(*     dictionary) with its two HTTP handlers start_interview and          *)
(*     upload_answer (AI_server_cloud_run/interview_router.py),            *)
(*   - the Progress Tracker (save_progress of session_agent/agent.py and   *)
(*     update_progress_video_url of interview_router.py),                  *)
(*   - the feedback fold (save_feedback_to_gcs of feedback_agent/agent.py) *)
(*     and the totalScore arithmetic of its instruction,                   *)
(*   - session id generation of generate_questions (question_router.py).   *)
(* Python dictionaries are functions whose DOMAIN is the set of keys; the  *)
(* object store is a dictionary from blob path to blob content.            *)
(***************************************************************************)
EXTENDS Integers, Sequences, FiniteSets, TLC

VARIABLES
    adk_session_store,  \* dict: business session id -> ADK (remote) session id
    nextRemote,         \* agent service: number of the next remote session it creates
    createdFor,         \* history: business session id -> remote ids created for it, in order
    gcs,                \* object store: dict blob path -> content
    now,                \* wall clock, in ticks of 1/TicksPerSecond second
    uploads,            \* history: session ids handed out by generate_questions, in order
    subCount,           \* scoring: number of sub-scores summed so far
    subSum,             \* scoring: their sum
    totalScore,         \* scoring: <<totalScore>> once computed, <<>> before
    pending,            \* calls in flight: caller -> where its save_progress and its first turn stand
    lastOp              \* history: the last call, its arguments and its outcome

vars == <<adk_session_store, nextRemote, createdFor, gcs, now, uploads,
          subCount, subSum, totalScore, pending, lastOp>>

bridgeVars == <<adk_session_store, nextRemote, createdFor>>
scoreVars == <<subCount, subSum, totalScore>>

None == "None"

(***************************************************************************)
(* Bounds and input domains.                                               *)
(***************************************************************************)
MaxRemote == 3      \* remote sessions the agent service creates in a run
MaxClock == 3       \* the clock stops after MaxClock ticks
MaxUploads == 3     \* resume uploads in a run

Sessions == {"session_0", "session_1"}
QNums == {1, 2}

(***************************************************************************)
(* Python dictionary helpers.                                              *)
(***************************************************************************)
EmptyDict == [k \in {} |-> None]

HasKey(d, k) == k \in DOMAIN d

Last(seq) == seq[Len(seq)]

Put(d, k, v) == [x \in (DOMAIN d) \cup {k} |-> IF x = k THEN v ELSE d[x]]

\* datetime.now().isoformat(): the clock reading as text
IsoFormat(t) == "T" \o ToString(t)

(***************************************************************************)
(* Session Bridge: call_session_agent.                                     *)
(***************************************************************************)
\* Python's None where a dictionary is expected
NoneDict == [isNone |-> TRUE]

\* the text that json.loads rejects
InvalidJson == [invalid |-> TRUE]

\* JSON objects the session agent answers with: the next question, the end
\* of the interview, an error message, and a question in the agent's first
\* output format (no status, no questionId)
ContinueReply == [status |-> "continue", questionId |-> 2, question |-> "Qb", isTailQuestion |-> TRUE, remainingSlots |-> 10]
CompletedReply == [status |-> "completed", message |-> "M"]
ErrorReply == [status |-> "error", message |-> "E"]
NoStatusReply == [questionNumber |-> 2, question |-> "Qb", isTailQuestion |-> FALSE]
JsonBodies == {ContinueReply, CompletedReply, ErrorReply, NoStatusReply}

\* the text of an event: a body, bare or inside a fenced code block tagged
\* json or inside a fence without tag
Fences == {"none", "json", "plain"}
EventText(fence, body) == [fence |-> fence, body |-> body]
EventTexts == [fence : Fences, body : JsonBodies \cup {InvalidJson}]

\* re.search(r'```json\s*\n(.*?)\n```', text): the inside of a fence tagged
\* json if there is one, else the text as it is
StripFence(text) ==
    IF text.fence = "json" THEN EventText("none", text.body) ELSE text

\* json.loads(json_str): the value, InvalidJson when it raises
JsonLoads(json_str) ==
    IF json_str.fence = "none" THEN json_str.body ELSE InvalidJson

\* d.get(k, default)
Get(d, k, default) == IF HasKey(d, k) THEN d[k] ELSE default

\* what the agent service does in one call: the stream query raises
\* (streamed false) or yields the events
StreamRaises == [streamed |-> FALSE, events |-> <<>>]
Stream(events) == [streamed |-> TRUE, events |-> events]
AgentReplies ==
    {StreamRaises, Stream(<<>>)}
    \cup {Stream(<<t>>) : t \in EventTexts}
    \cup {Stream(<<EventText("none", CompletedReply), t>>) : t \in {EventText("json", ContinueReply), EventText("none", InvalidJson)}}

\* the environment of one request: whether the session creation and the
\* speech synthesis succeed, and what the stream query does
AgentEnvs == [create : BOOLEAN, reply : AgentReplies, tts : BOOLEAN]

RemoteId(n) == "adk_" \o ToString(n)

BusinessSessionId(session_id, token) ==
    IF session_id # None /\ session_id # ""
    THEN session_id
    ELSE IF token # None THEN token ELSE "default_session"

\* adk_session_store.get(business_session_id)
StoredSession(store, bsid) == IF HasKey(store, bsid) THEN store[bsid] ELSE None

\* the parsed response of the first event
ParseFirstEvent(events) == JsonLoads(StripFence(events[1]))

\* the parsed response of the last event, InvalidJson when parsing fails
ParseLastEvent(events) == JsonLoads(StripFence(events[Len(events)]))

\* StreamOutcome without the check for an empty stream: events[-1] raises
StreamOutcomeNoEmptyCheck(reply) ==
    IF ~reply.streamed THEN "stream_error"
    ELSE IF reply.events = <<>> THEN "index_error"
    ELSE IF ParseLastEvent(reply.events) = InvalidJson THEN "parse_error"
    ELSE "ok"

\* the outcome of the stream query and of the parsing
StreamOutcome(reply) ==
    IF ~reply.streamed THEN "stream_error"
    ELSE IF reply.events = <<>> THEN "empty_response"
    ELSE IF ParseLastEvent(reply.events) = InvalidJson THEN "parse_error"
    ELSE "ok"

\* the stream query on remote session adk_session_id and the parsing of its
\* last event: response is the parsed value returned, NoneDict when the call
\* raises
StreamAndParse(store, created, adk_session_id, reply) ==
    [store |-> store, created |-> created, queried |-> adk_session_id,
     result |-> StreamOutcome(reply),
     response |-> IF StreamOutcome(reply) = "ok"
                  THEN ParseLastEvent(reply.events) ELSE NoneDict,
     reply |-> reply]

Failed(store, why) ==
    [store |-> store, created |-> None, queried |-> None, result |-> why,
     response |-> NoneDict, reply |-> NoneDict]

\* FirstCall binding the remote session only once the agent has answered
FirstCallBindsLate(store, bsid, newId, env) ==
    IF ~env.create
    THEN Failed(store, "create_error")
    ELSE StreamAndParse(IF StreamOutcome(env.reply) = "ok"
                        THEN Put(store, bsid, newId) ELSE store,
                        newId, newId, env.reply)

\* FirstCall keeping the binding a session already has
FirstCallKeepsBinding(store, bsid, newId, env) ==
    IF ~env.create
    THEN Failed(store, "create_error")
    ELSE IF StoredSession(store, bsid) # None
    THEN StreamAndParse(store, None, StoredSession(store, bsid), env.reply)
    ELSE StreamAndParse(Put(store, bsid, newId), newId, newId, env.reply)

\* the first-turn branch: create a remote session and bind it
FirstCall(store, bsid, newId, env) ==
    IF ~env.create
    THEN Failed(store, "create_error")
    ELSE StreamAndParse(Put(store, bsid, newId), newId, newId, env.reply)

\* LaterCall looking the binding up under the default key
LaterCallDefaultKey(store, bsid, env) ==
    IF StoredSession(store, "default_session") = None
    THEN Failed(store, "session_not_found")
    ELSE StreamAndParse(store, None, StoredSession(store, "default_session"),
                        env.reply)

\* the later-turn branch: reuse the stored remote session
LaterCall(store, bsid, env) ==
    IF StoredSession(store, bsid) = None
    THEN Failed(store, "session_not_found")
    ELSE StreamAndParse(store, None, StoredSession(store, bsid), env.reply)

\* call_session_agent creating the remote session of a later turn when none is bound
CallSessionAgentCreates(store, newId, session_id, token, is_first_call, env) ==
    IF is_first_call
       \/ StoredSession(store, BusinessSessionId(session_id, token)) = None
    THEN FirstCall(store, BusinessSessionId(session_id, token), newId, env)
    ELSE LaterCall(store, BusinessSessionId(session_id, token), env)

\* call_session_agent binding every session under one key
CallSessionAgentOneKey(store, newId, session_id, token, is_first_call, env) ==
    IF is_first_call
    THEN FirstCall(store, "default_session", newId, env)
    ELSE LaterCall(store, "default_session", env)

\* call_session_agent(message, session_id, is_first_call); token is the id in
\* the [SESSION_ID: ...] tag of the message.  The result holds the store after
\* the call, the remote id created (or None), the remote id the stream query
\* was invoked with (None: not invoked) and the outcome.
call_session_agent(store, newId, session_id, token, is_first_call, env) ==
    IF is_first_call
    THEN FirstCall(store, BusinessSessionId(session_id, token), newId, env)
    ELSE LaterCall(store, BusinessSessionId(session_id, token), env)

(***************************************************************************)
(* Object store access of the session agent (session_agent/agent.py).      *)
(***************************************************************************)
BucketName == "bucket"

\* one progress file for all sessions
ProgressPathShared(session_id) == "progress_interview/progress.json"

ProgressPath(session_id) == "progress_interview/" \o session_id \o "_progress.json"

\* Python truth value of a loader's result: None and {} are false
Truthy(d) == d # NoneDict /\ d # EmptyDict

\* load_from_gcs(filename, folder): the stored JSON, or None when the blob is
\* absent, when the client is missing or when the read raises (readOk false)
load_from_gcs(store, path, readOk) ==
    IF ~readOk THEN NoneDict
    ELSE IF HasKey(store, path) THEN store[path] ELSE NoneDict

\* save_to_gcs(data, filename, folder): the store after the call; a missing
\* client or a failed upload (writeOk false) leaves it as it was
save_to_gcs(store, data, path, writeOk) ==
    IF writeOk THEN Put(store, path, data) ELSE store

(***************************************************************************)
(* Progress Tracker: save_progress.                                        *)
(***************************************************************************)
\* index of the first entry of questions whose number is question_number, 0 if none
FindNumber(questions, question_number) ==
    IF \E i \in 1..Len(questions) : questions[i].number = question_number
    THEN CHOOSE i \in 1..Len(questions) :
            /\ questions[i].number = question_number
            /\ \A j \in 1..(i - 1) : questions[j].number # question_number
    ELSE 0

\* Python truth value of answer_text: None and "" are false
Provided(answer_text) == answer_text # None /\ answer_text # ""

Max(a, b) == IF a >= b THEN a ELSE b

NewProgress(session_id, target_total, t) ==
    [sessionId |-> session_id, targetTotal |-> target_total,
     startTime |-> IsoFormat(t), questions |-> <<>>]

NewQuestion(question_number, question_text, is_tail_question, answer_text, t) ==
    [number |-> question_number, question |-> question_text,
     isTailQuestion |-> is_tail_question, answer |-> answer_text,
     videoUrl |-> None, askedAt |-> IsoFormat(t),
     answeredAt |-> IF Provided(answer_text) THEN IsoFormat(t) ELSE None]

\* the merge appending an entry whether or not the number is there
MergeQuestionAppend(questions, question_number, question_text, is_tail_question, answer_text, t) ==
    Append(questions, NewQuestion(question_number, question_text,
                                  is_tail_question, answer_text, t))

\* the find-or-create step on the question list
MergeQuestion(questions, question_number, question_text, is_tail_question, answer_text, t) ==
    LET i == FindNumber(questions, question_number) IN
    IF i # 0
    THEN IF Provided(answer_text)
         THEN [questions EXCEPT ![i] =
                  Put(Put(@, "answer", answer_text), "answeredAt", IsoFormat(t))]
         ELSE questions
    ELSE Append(questions, NewQuestion(question_number, question_text,
                                       is_tail_question, answer_text, t))

\* remaining_slots = max(target_total - total_asked, 0)
RemainingSlots(target_total, total_asked) == Max(target_total - total_asked, 0)

\* the record save_progress builds from what it loaded
ProgressRecord(loaded, session_id, question_number, question_text, is_tail_question, answer_text, target_total, t) ==
    LET existing == IF Truthy(loaded) THEN loaded
                    ELSE NewProgress(session_id, target_total, t)
        old == IF Truthy(loaded) /\ HasKey(loaded, "questions")
               THEN loaded.questions ELSE <<>>
        questions == MergeQuestion(old, question_number, question_text,
                                   is_tail_question, answer_text, t)
        total_asked == Len(questions)
    IN  Put(Put(Put(Put(Put(Put(existing,
            "questions", questions),
            "currentQuestion", question_number),
            "totalQuestions", target_total),
            "askedQuestions", total_asked),
            "remainingSlots", RemainingSlots(target_total, total_asked)),
            "timestamp", IsoFormat(t))

\* the dictionary save_progress returns
ProgressResult(record) ==
    [status |-> "success", currentQuestion |-> record.currentQuestion,
     totalQuestions |-> record.totalQuestions,
     askedQuestions |-> record.askedQuestions,
     remainingSlots |-> record.remainingSlots]

\* save_progress: the object store after the call
save_progress(store, session_id, question_number, question_text, is_tail_question, answer_text, target_total, t, readOk, writeOk) ==
    save_to_gcs(store,
                ProgressRecord(load_from_gcs(store, ProgressPath(session_id), readOk),
                               session_id, question_number, question_text,
                               is_tail_question, answer_text, target_total, t),
                ProgressPath(session_id), writeOk)

\* save_progress: the dictionary returned, whatever save_to_gcs answered
save_progress_result(store, session_id, question_number, question_text, is_tail_question, answer_text, target_total, t, readOk) ==
    ProgressResult(ProgressRecord(load_from_gcs(store, ProgressPath(session_id), readOk),
                                  session_id, question_number, question_text,
                                  is_tail_question, answer_text, target_total, t))

(***************************************************************************)
(* Progress Tracker: update_progress_video_url (interview_router.py).      *)
(***************************************************************************)
VideoPath(session_id, question_number, ext) ==
    "video/" \o session_id \o "_q" \o ToString(question_number) \o ext

VideoUri(session_id, question_number, ext) ==
    "gs://" \o BucketName \o "/" \o VideoPath(session_id, question_number, ext)

\* the loaded record with videoUrl and uploadedAt set on the first entry whose
\* number is question_number; unchanged if there is none
AttachVideo(progress_data, question_number, video_url, t) ==
    LET questions == IF HasKey(progress_data, "questions")
                     THEN progress_data.questions ELSE <<>>
        i == FindNumber(questions, question_number)
    IN  IF i = 0 THEN progress_data
        ELSE Put(progress_data, "questions",
                 [questions EXCEPT ![i] =
                     Put(Put(@, "videoUrl", video_url), "uploadedAt", IsoFormat(t))])

\* update_progress_video_url creating the record when there is none
UpdateVideoUpsert(store, session_id, question_number, video_url, t, readOk, writeOk) ==
    IF ~readOk \/ ~writeOk THEN [store |-> store, outcome |-> "returned"]
    ELSE [store |-> Put(store, ProgressPath(session_id),
                        AttachVideo(IF HasKey(store, ProgressPath(session_id))
                                    THEN store[ProgressPath(session_id)]
                                    ELSE [sessionId |-> session_id,
                                          questions |-> <<>>],
                                    question_number, video_url, t)),
          outcome |-> "returned"]

\* update_progress_video_url letting its failures reach the caller
UpdateVideoRaises(store, session_id, question_number, video_url, t, readOk, writeOk) ==
    IF ~readOk \/ ~HasKey(store, ProgressPath(session_id)) \/ ~writeOk
    THEN [store |-> store, outcome |-> "raised"]
    ELSE [store |-> Put(store, ProgressPath(session_id),
                        AttachVideo(store[ProgressPath(session_id)],
                                    question_number, video_url, t)),
          outcome |-> "returned"]

\* update_progress_video_url: the object store after the call and how the
\* call ended.  Every exception is caught and logged: a failed read (readOk
\* false) or a failed upload (writeOk false) leaves the store as it was.
update_progress_video_url(store, session_id, question_number, video_url, t, readOk, writeOk) ==
    IF ~readOk THEN [store |-> store, outcome |-> "returned"]
    ELSE IF ~HasKey(store, ProgressPath(session_id))
    THEN [store |-> store, outcome |-> "returned"]
    ELSE IF ~writeOk THEN [store |-> store, outcome |-> "returned"]
    ELSE [store |-> Put(store, ProgressPath(session_id),
                        AttachVideo(store[ProgressPath(session_id)],
                                    question_number, video_url, t)),
          outcome |-> "returned"]

(***************************************************************************)
(* Feedback fold: save_feedback_to_gcs (feedback_agent/agent.py).  The     *)
(* aggregate record is a dictionary whose key order is kept: order is the  *)
(* sequence of its keys, at the dictionary.                                *)
(***************************************************************************)
FeedbackPath(session_id) == "feedback_folder/" \o session_id \o "_all_feedback.json"

OPut(d, k, v) ==
    [order |-> IF HasKey(d.at, k) THEN d.order ELSE Append(d.order, k),
     at |-> Put(d.at, k, v)]

\* d.pop(k): d without key k
OPop(d, k) ==
    [order |-> SelectSeq(d.order, LAMBDA x : x # k),
     at |-> [x \in (DOMAIN d.at) \ {k} |-> d.at[x]]]

\* a.update(b) on question entries
Update(a, b) == [x \in (DOMAIN a) \cup (DOMAIN b) |-> IF x \in DOMAIN b THEN b[x] ELSE a[x]]

\* feedback agent's load_from_gcs
feedback_load_from_gcs(store, path, readOk) ==
    IF ~readOk THEN NoneDict
    ELSE IF HasKey(store, path) THEN store[path] ELSE NoneDict

NewFeedback(session_id, t) ==
    [order |-> <<"sessionId", "createdAt", "questions">>,
     at |-> [sessionId |-> session_id, createdAt |-> IsoFormat(t),
             questions |-> <<>>]]

\* index of the first entry whose questionId is question_number, 0 if none
FindQuestionId(questions, question_number) ==
    IF \E i \in 1..Len(questions) :
          HasKey(questions[i], "questionId") /\ questions[i].questionId = question_number
    THEN CHOOSE i \in 1..Len(questions) :
            /\ HasKey(questions[i], "questionId")
            /\ questions[i].questionId = question_number
            /\ \A j \in 1..(i - 1) :
                  ~(HasKey(questions[j], "questionId")
                    /\ questions[j].questionId = question_number)
    ELSE 0

\* the find-or-create step of the fold
MergeFeedback(questions, question_number, question_feedback) ==
    LET i == FindQuestionId(questions, question_number) IN
    IF i # 0
    THEN [questions EXCEPT ![i] = Update(@, question_feedback)]
    ELSE Append(questions, question_feedback)

PromoteField(d, question_feedback, k) ==
    IF HasKey(question_feedback, k) THEN OPut(d, k, question_feedback[k]) ELSE d

\* the is_final step: promote the summary fields and move createdAt last
Promote(d, question_feedback, t) ==
    LET p == PromoteField(PromoteField(PromoteField(PromoteField(d,
                 question_feedback, "general_feedback"),
                 question_feedback, "pro"),
                 question_feedback, "con"),
                 question_feedback, "totalScore")
        created_at_value == IF HasKey(p.at, "createdAt") THEN p.at.createdAt
                            ELSE IsoFormat(t)
    IN  OPut(OPop(p, "createdAt"), "createdAt", created_at_value)

\* the aggregate record save_feedback_to_gcs builds from what it loaded
FeedbackRecord(loaded, session_id, question_number, question_feedback, is_final, t) ==
    LET existing == IF loaded # NoneDict /\ loaded.at # EmptyDict THEN loaded
                    ELSE NewFeedback(session_id, t)
        old == IF loaded # NoneDict /\ loaded.at # EmptyDict
                  /\ HasKey(loaded.at, "questions")
               THEN loaded.at.questions ELSE <<>>
        merged == OPut(existing, "questions",
                       MergeFeedback(old, question_number, question_feedback))
    IN  IF is_final THEN Promote(merged, question_feedback, t) ELSE merged

\* save_feedback_to_gcs without its try / except: a payload that does not
\* parse and a failed write reach the caller as exceptions
SaveFeedbackRaises(store, session_id, question_number, question_feedback_json, is_final, t, clientOk, readOk, writeOk) ==
    IF ~clientOk THEN [store |-> store, result |-> "no_client"]
    ELSE IF question_feedback_json = InvalidJson \/ ~writeOk
    THEN [store |-> store, result |-> "raised"]
    ELSE [store |-> Put(store, FeedbackPath(session_id),
                        FeedbackRecord(feedback_load_from_gcs(store,
                                           FeedbackPath(session_id), readOk),
                                       session_id, question_number,
                                       question_feedback_json, is_final, t)),
          result |-> "saved"]

\* save_feedback_to_gcs: the object store after the call and the kind of
\* message returned
save_feedback_to_gcs(store, session_id, question_number, question_feedback_json, is_final, t, clientOk, readOk, writeOk) ==
    IF ~clientOk THEN [store |-> store, result |-> "no_client"]
    ELSE IF question_feedback_json = InvalidJson
    THEN [store |-> store, result |-> "error"]
    ELSE IF ~writeOk THEN [store |-> store, result |-> "error"]
    ELSE [store |-> Put(store, FeedbackPath(session_id),
                        FeedbackRecord(feedback_load_from_gcs(store,
                                           FeedbackPath(session_id), readOk),
                                       session_id, question_number,
                                       question_feedback_json, is_final, t)),
          result |-> "saved"]

(***************************************************************************)
(* totalScore of the final feedback entry (feedback agent instruction).    *)
(***************************************************************************)
NumSubScores == 12
MinSubScore == 1
MaxSubScore == 10
MaxSum == 120

\* n / d rounded to the nearest integer, halves up
RoundDiv(n, d) == (2 * n + d) \div (2 * d)

\* the conversion with the fraction dropped instead of rounded
TotalScoreTruncated(sum) == (sum * 100) \div MaxSum

\* (sum / 120) x 100, rounded to an integer
TotalScore(sum) == RoundDiv(sum * 100, MaxSum)

(***************************************************************************)
(* Session id generation of generate_questions (question_router.py).       *)
(***************************************************************************)
TicksPerSecond == 2

\* datetime.now().strftime("%Y%m%d_%H%M%S"): the clock reading cut to whole seconds
StrfTime(t) == ToString(t \div TicksPerSecond)

SessionId(t) == "session_" \o StrfTime(t)

PdfPath(session_id) == "pdf/" \o session_id \o "_resume.pdf"

AnalysisPath(session_id) == "interview_questions/" \o session_id \o "_analysis.json"

(***************************************************************************)
(* start_interview_session (session_agent/agent.py).                        *)
(***************************************************************************)
\* the analysis file as load_from_gcs returns it: None when it is absent,
\* when the read fails or when its text is not JSON
AnalysisData(store, session_id, readOk) ==
    IF readOk /\ HasKey(store, AnalysisPath(session_id))
       /\ store[AnalysisPath(session_id)].text = "{}"
    THEN store[AnalysisPath(session_id)] ELSE NoneDict

\* the Progress Record start_interview_session writes
InitialProgress(session_id, target_total, t) ==
    [sessionId |-> session_id, targetTotal |-> target_total,
     startTime |-> IsoFormat(t), questions |-> <<>>,
     currentQuestion |-> 0, remainingQuestions |-> target_total]

\* start_interview_session: the object store after the call and its status
start_interview_session(store, session_id, target_total, t, readOk, writeOk) ==
    IF AnalysisData(store, session_id, readOk) = NoneDict
    THEN [store |-> store, status |-> "error"]
    ELSE [store |-> save_to_gcs(store, InitialProgress(session_id, target_total, t),
                                ProgressPath(session_id), writeOk),
          status |-> "success"]

(***************************************************************************)
(* Initial state: no binding, an empty bucket, nothing scored.             *)
(***************************************************************************)
SessionIds == Sessions \cup {"default_session"}

\* two requests being served at the same time
Callers == {1, 2}

\* no call of the caller is in flight
Idle == [save |-> [pc |-> "idle"], call |-> [pc |-> "idle"]]

Init ==
    /\ adk_session_store = EmptyDict
    /\ nextRemote = 1
    /\ createdFor = [s \in SessionIds |-> <<>>]
    /\ gcs = EmptyDict
    /\ now = 0
    /\ uploads = <<>>
    /\ subCount = 0
    /\ subSum = 0
    /\ totalScore = <<>>
    /\ pending = [p \in Callers |-> Idle]
    /\ lastOp = [op |-> "init", sid |-> None]

(***************************************************************************)
(* HTTP handlers of interview_router.py.                                   *)
(***************************************************************************)
\* the bridge variables after a call_session_agent that returned r for bsid
Bridge(r, bsid) ==
    /\ adk_session_store' = r.store
    /\ nextRemote' = IF r.created # None THEN nextRemote + 1 ELSE nextRemote
    /\ createdFor' = IF r.created # None
                     THEN [createdFor EXCEPT ![bsid] = Append(@, r.created)]
                     ELSE createdFor

\* text_to_speech(question_text, ...) called when the question is not empty:
\* the audio, None when the synthesis fails (the exception is caught inside)
AudioData(question_text, tts) ==
    IF question_text # "" /\ tts THEN "audio" ELSE None

\* the InterviewStartResponse built from the agent's response; NoneDict when
\* its validation fails (questionId is a required int)
StartResponse(response, sessionId, tts) ==
    IF ~HasKey(response, "questionId") THEN NoneDict
    ELSE [status |-> Get(response, "status", "continue"),
          questionId |-> response.questionId,
          question |-> Get(response, "question", ""),
          isTailQuestion |-> Get(response, "isTailQuestion", FALSE),
          sessionId |-> sessionId,
          remainingSlots |-> Get(response, "remainingSlots", 0),
          audioData |-> AudioData(Get(response, "question", ""), tts)]

\* AnswerResponse handing on the status of the agent's response
AnswerResponseAgentStatus(response, sessionId, tts) ==
    [status |-> Get(response, "status", "continue"),
     question |-> Get(response, "question", ""),
     isTailQuestion |-> Get(response, "isTailQuestion", FALSE),
     sessionId |-> sessionId,
     remainingSlots |-> Get(response, "remainingSlots", 0),
     audioData |-> AudioData(Get(response, "question", ""), tts)]

\* the InterviewAnswerResponse built from the agent's response; a field left
\* at None is not in the record
AnswerResponse(response, sessionId, tts) ==
    IF Get(response, "status", None) = "completed"
    THEN [status |-> "completed", sessionId |-> sessionId, remainingSlots |-> 0,
          message |-> Get(response, "message", "default_message"),
          audioData |-> None]
    ELSE [status |-> "continue",
          question |-> Get(response, "question", ""),
          isTailQuestion |-> Get(response, "isTailQuestion", FALSE),
          sessionId |-> sessionId,
          remainingSlots |-> Get(response, "remainingSlots", 0),
          audioData |-> AudioData(Get(response, "question", ""), tts)]
         @@ (IF HasKey(response, "questionId")
             THEN [questionId |-> response.questionId] ELSE EmptyDict)

\* Outcome answering 200 with an error body when the call failed
OutcomeErrorBody(r, body) ==
    [result |-> IF r.result = "ok" /\ body = NoneDict
                THEN "validation_error" ELSE r.result,
     created |-> r.created, queried |-> r.queried, reply |-> r.reply,
     parsed |-> r.response,
     status |-> IF r.result = "ok" THEN Get(r.response, "status", None) ELSE None,
     response |-> IF r.result = "ok" /\ body # NoneDict THEN body
                  ELSE [status |-> "error"],
     http |-> 200]

\* what the history keeps of a call_session_agent result r (the reply of the
\* agent service, the value parsed) and of the HTTP response body built from
\* it (NoneDict: the handler raised)
Outcome(r, body) ==
    [result |-> IF r.result = "ok" /\ body = NoneDict
                THEN "validation_error" ELSE r.result,
     created |-> r.created, queried |-> r.queried, reply |-> r.reply,
     parsed |-> r.response,
     status |-> IF r.result = "ok" THEN Get(r.response, "status", None) ELSE None,
     response |-> IF r.result = "ok" THEN body ELSE NoneDict,
     http |-> IF r.result = "ok" /\ body # NoneDict THEN 200 ELSE 500]

\* the outcome of a request that failed before it called the agent
EarlyFailure(why) ==
    [result |-> why, created |-> None, queried |-> None, reply |-> NoneDict,
     parsed |-> NoneDict, status |-> None, response |-> NoneDict, http |-> 500]

\* POST /start
start_interview(sessionId, env) ==
    /\ nextRemote <= MaxRemote
    /\ LET r == call_session_agent(adk_session_store, RemoteId(nextRemote),
                                   sessionId, sessionId, TRUE, env)
       IN  /\ Bridge(r, BusinessSessionId(sessionId, sessionId))
           /\ lastOp' = [op |-> "start_interview", sid |-> sessionId]
                        @@ Outcome(r, IF r.result = "ok"
                                      THEN StartResponse(r.response, sessionId, env.tts)
                                      ELSE NoneDict)
    /\ UNCHANGED <<pending, gcs, now, uploads, scoreVars>>

\* the extension upload_answer gives the stored video, from the file name
FileExtension(suffix) == IF suffix = ".mp4" THEN ".mp4" ELSE ".webm"

VideoBlob == [contentType |-> "video"]

\* the steps of upload_answer in the order of the handler's body
AnswerOrder == <<"upload", "attach", "stt", "agent", "response">>

\* upload_answer transcribing before it attaches the video to the record
AnswerFlowSttFirst(store, sessionId, questionNumber, ext, t, uploadOk, readOk, writeOk, sttOk) ==
    LET uploaded == Put(store, VideoPath(sessionId, questionNumber, ext), VideoBlob)
        u == update_progress_video_url(uploaded, sessionId, questionNumber,
                 VideoUri(sessionId, questionNumber, ext), t, readOk, writeOk)
    IN  IF ~uploadOk
        THEN [store |-> store, attach |-> None, steps |-> <<"upload">>,
              failed |-> "upload_error"]
        ELSE IF ~sttOk
        THEN [store |-> uploaded, attach |-> None, steps |-> <<"upload", "stt">>,
              failed |-> "stt_error"]
        ELSE IF u.outcome # "returned"
        THEN [store |-> u.store, attach |-> u.outcome,
              steps |-> <<"upload", "stt", "attach">>, failed |-> "attach_error"]
        ELSE [store |-> u.store, attach |-> u.outcome,
              steps |-> <<"upload", "stt", "attach">>, failed |-> None]

\* upload_answer up to the agent call: the video upload, the media
\* attachment, the transcription; the steps begun, the object store they
\* leave, and the step that raised (None: the agent call is next)
AnswerFlow(store, sessionId, questionNumber, ext, t, uploadOk, readOk, writeOk, sttOk) ==
    LET uploaded == Put(store, VideoPath(sessionId, questionNumber, ext), VideoBlob)
        u == update_progress_video_url(uploaded, sessionId, questionNumber,
                 VideoUri(sessionId, questionNumber, ext), t, readOk, writeOk)
    IN  IF ~uploadOk
        THEN [store |-> store, attach |-> None, steps |-> <<"upload">>,
              failed |-> "upload_error"]
        ELSE IF u.outcome # "returned"
        THEN [store |-> u.store, attach |-> u.outcome,
              steps |-> <<"upload", "attach">>, failed |-> "attach_error"]
        ELSE IF ~sttOk
        THEN [store |-> u.store, attach |-> u.outcome,
              steps |-> <<"upload", "attach", "stt">>, failed |-> "stt_error"]
        ELSE [store |-> u.store, attach |-> u.outcome,
              steps |-> <<"upload", "attach", "stt">>, failed |-> None]

\* POST /upload-answer: video upload, progress update, speech to text, agent
\* call; uploadOk and sttOk tell whether the upload and the transcription
\* succeed
upload_answer(sessionId, questionNumber, suffix, uploadOk, readOk, writeOk, sttOk, env) ==
    /\ LET f == AnswerFlow(gcs, sessionId, questionNumber, FileExtension(suffix),
                           now, uploadOk, readOk, writeOk, sttOk)
           r == call_session_agent(adk_session_store, RemoteId(nextRemote),
                                   sessionId, sessionId, FALSE, env)
           body == IF r.result = "ok"
                   THEN AnswerResponse(r.response, sessionId, env.tts)
                   ELSE NoneDict
           op == [op |-> "upload_answer", sid |-> sessionId,
                  number |-> questionNumber, attach |-> f.attach,
                  stored |-> readOk /\ writeOk]
       IN  /\ gcs' = f.store
           /\ IF f.failed # None
              THEN /\ lastOp' = op @@ [steps |-> f.steps] @@ EarlyFailure(f.failed)
                   /\ UNCHANGED bridgeVars
              ELSE /\ Bridge(r, BusinessSessionId(sessionId, sessionId))
                   /\ lastOp' = op @@ [steps |-> f.steps \o <<"agent">>
                                          \o (IF r.result = "ok" /\ body # NoneDict
                                              THEN <<"response">> ELSE <<>>)]
                                   @@ Outcome(r, body)
    /\ UNCHANGED <<pending, now, uploads, scoreVars>>

(***************************************************************************)
(* Tool calls of the agents and the direct call of the media attachment.   *)
(***************************************************************************)
\* the question list of the stored Progress Record, empty if there is none
ProgressQuestions(store, session_id) ==
    IF HasKey(store, ProgressPath(session_id))
       /\ HasKey(store[ProgressPath(session_id)], "questions")
    THEN store[ProgressPath(session_id)].questions ELSE <<>>

\* a save_progress call; the history keeps its arguments and whether it
\* repeats the call before it (repeat)
SaveProgress(session_id, question_number, question_text, is_tail_question, answer_text, target_total, readOk, writeOk) ==
    /\ gcs' = save_progress(gcs, session_id, question_number, question_text,
                            is_tail_question, answer_text, target_total, now,
                            readOk, writeOk)
    /\ lastOp' = [op |-> "save_progress", sid |-> session_id,
                  number |-> question_number, question |-> question_text,
                  isTailQuestion |-> is_tail_question, answer |-> answer_text,
                  target |-> target_total,
                  returned |-> save_progress_result(gcs, session_id, question_number,
                                   question_text, is_tail_question, answer_text,
                                   target_total, now, readOk),
                  repeat |-> /\ lastOp.op = "save_progress"
                             /\ lastOp.sid = session_id
                             /\ lastOp.number = question_number
                             /\ lastOp.question = question_text
                             /\ lastOp.isTailQuestion = is_tail_question
                             /\ lastOp.answer = answer_text
                             /\ lastOp.target = target_total]
    /\ UNCHANGED <<pending, bridgeVars, now, uploads, scoreVars>>

AttachMedia(session_id, question_number, suffix, readOk, writeOk) ==
    /\ LET u == update_progress_video_url(gcs, session_id, question_number,
                    VideoUri(session_id, question_number, FileExtension(suffix)),
                    now, readOk, writeOk)
       IN  /\ gcs' = u.store
           /\ lastOp' = [op |-> "update_progress_video_url", sid |-> session_id,
                         number |-> question_number, attach |-> u.outcome]
    /\ UNCHANGED <<pending, bridgeVars, now, uploads, scoreVars>>

StartInterviewSession(session_id, target_total, readOk, writeOk) ==
    /\ LET r == start_interview_session(gcs, session_id, target_total, now,
                                         readOk, writeOk)
       IN  /\ gcs' = r.store
           /\ lastOp' = [op |-> "start_interview_session", sid |-> session_id,
                         target |-> target_total, status |-> r.status]
    /\ UNCHANGED <<pending, bridgeVars, now, uploads, scoreVars>>

MaxEntries == 2     \* feedback entries an aggregate record grows to in a run

\* the entries of the stored aggregate feedback record, empty if there is none
FeedbackQuestions(store, session_id) ==
    IF HasKey(store, FeedbackPath(session_id))
    THEN store[FeedbackPath(session_id)].at.questions ELSE <<>>

\* a save_feedback_to_gcs tool call; the history keeps its arguments, its
\* result and whether it repeats a successful call just before it (repeat)
SaveFeedback(session_id, question_number, question_feedback_json, is_final, clientOk, readOk, writeOk) ==
    /\ Len(FeedbackQuestions(gcs, session_id)) < MaxEntries
       \/ FindQuestionId(FeedbackQuestions(gcs, session_id), question_number) # 0
    /\ LET f == save_feedback_to_gcs(gcs, session_id, question_number,
                    question_feedback_json, is_final, now, clientOk, readOk, writeOk)
       IN  /\ gcs' = f.store
           /\ lastOp' = [op |-> "save_feedback_to_gcs", sid |-> session_id,
                         number |-> question_number,
                         payload |-> question_feedback_json,
                         final |-> is_final, result |-> f.result,
                         readOk |-> readOk,
                         fault |-> IF ~clientOk THEN "client"
                                   ELSE IF question_feedback_json = InvalidJson
                                   THEN "payload"
                                   ELSE IF ~writeOk THEN "write" ELSE None,
                         repeat |-> /\ lastOp.op = "save_feedback_to_gcs"
                                    /\ lastOp.sid = session_id
                                    /\ lastOp.number = question_number
                                    /\ lastOp.payload = question_feedback_json
                                    /\ lastOp.final = is_final
                                    /\ lastOp.result = "saved"]
    /\ UNCHANGED <<pending, bridgeVars, now, uploads, scoreVars>>

(***************************************************************************)
(* Scoring: the twelve sub-scores are summed, then totalScore is computed. *)
(***************************************************************************)
AddSubScore(v) ==
    /\ subCount < NumSubScores
    /\ subCount' = subCount + 1
    /\ subSum' = subSum + v
    /\ lastOp' = [op |-> "sub_score", sid |-> None]
    /\ UNCHANGED <<pending, bridgeVars, gcs, now, uploads, totalScore>>

ComputeTotalScore ==
    /\ subCount = NumSubScores
    /\ totalScore = <<>>
    /\ totalScore' = <<TotalScore(subSum)>>
    /\ lastOp' = [op |-> "total_score", sid |-> None]
    /\ UNCHANGED <<pending, bridgeVars, gcs, now, uploads, subCount, subSum>>

(***************************************************************************)
(* Resume upload: the clock and generate_questions (question_router.py).   *)
(***************************************************************************)
Tick ==
    /\ now < MaxClock
    /\ now' = now + 1
    /\ lastOp' = [op |-> "tick", sid |-> None]
    /\ UNCHANGED <<pending, bridgeVars, gcs, uploads, scoreVars>>

\* the uploaded file: whether its name ends in .pdf, and what its bytes are
ResumeFiles == [pdfName : BOOLEAN, content : {"pdf", "empty"}]

\* what the question agent does with the analysis file: the stream query
\* raises; nothing is written; the file is written only after the handler has
\* looked for it; or it is written in time, blank, not JSON or as JSON
AnalysisOutcomes == {"agent_error", "missing", "late", "empty", "invalid", "ok"}

AnalysisText(analysis) ==
    CASE analysis = "empty" -> " "
      [] analysis = "invalid" -> "not json"
      [] OTHER -> "{}"

AnalysisBlob(analysis) == [contentType |-> "json", text |-> AnalysisText(analysis)]

\* the handler looks again when the file is not there
AnalysisExistsRetry(atCheck, later, analysis_path) ==
    [exists |-> HasKey(atCheck, analysis_path) \/ HasKey(later, analysis_path),
     checks |-> IF HasKey(atCheck, analysis_path) THEN 1 ELSE 2,
     blob |-> IF HasKey(later, analysis_path) THEN later[analysis_path] ELSE NoneDict]

\* analysis_blob.exists(), once, on the bucket as it is after the sleep;
\* `later` is the bucket once the agent's pending writes have landed
AnalysisExists(atCheck, later, analysis_path) ==
    [exists |-> HasKey(atCheck, analysis_path),
     checks |-> 1,
     blob |-> IF HasKey(atCheck, analysis_path) THEN atCheck[analysis_path] ELSE NoneDict]

\* POST /generate-questions. The request is served at clock reading `now`;
\* requests overlap (the handler awaits the agent and sleeps), so the clock
\* is advanced by Tick only. An upload is accepted when the handler returns
\* its sessionId.
generate_questions(resume_file, analysis) ==
    /\ Len(uploads) < MaxUploads
    /\ LET session_id == SessionId(now)
           analysis_path == AnalysisPath(session_id)
           stored == Put(gcs, PdfPath(session_id),
                         [contentType |-> "pdf", content |-> resume_file.content])
           atCheck == IF analysis \in {"empty", "invalid", "ok"}
                      THEN Put(stored, analysis_path, AnalysisBlob(analysis))
                      ELSE stored
           later == IF analysis = "late"
                    THEN Put(stored, analysis_path, AnalysisBlob("ok"))
                    ELSE atCheck
           found == AnalysisExists(atCheck, later, analysis_path)
           call == [op |-> "generate_questions", resume_file |-> resume_file,
                    analysis |-> analysis]
       IN  IF ~resume_file.pdfName
           THEN /\ lastOp' = call @@ [sid |-> None, http |-> 400, agentCalled |-> FALSE,
                                      atCheck |-> FALSE, checks |-> 0]
                /\ UNCHANGED <<gcs, uploads>>
           ELSE IF analysis = "agent_error"
           THEN /\ gcs' = stored
                /\ lastOp' = call @@ [sid |-> session_id, http |-> 500, agentCalled |-> TRUE,
                                      atCheck |-> FALSE, checks |-> 0]
                /\ UNCHANGED uploads
           ELSE /\ gcs' = later
                /\ LET ok == /\ found.exists
                             /\ found.blob.text = "{}"
                   IN  /\ uploads' = IF ok
                                     THEN Append(uploads, [sessionId |-> session_id,
                                                           pdf_path |-> PdfPath(session_id)])
                                     ELSE uploads
                       /\ lastOp' = call @@ [sid |-> session_id,
                                             http |-> IF ok THEN 200 ELSE 500,
                                             agentCalled |-> TRUE,
                                             atCheck |-> HasKey(atCheck, analysis_path),
                                             checks |-> found.checks]
    /\ UNCHANGED <<pending, bridgeVars, now, scoreVars>>

(***************************************************************************)
(* Calls served at the same time.  save_progress reads the record (agent.py *)
(* line 149) and writes it back (line 197) in two storage requests; the     *)
(* first turn of call_session_agent awaits the creation of the remote       *)
(* session (interview_router.py line 99) and the stream query (line 118).   *)
(* Another call can run between these points.                               *)
(***************************************************************************)
\* save_progress reading the record again just before it writes
ReloadedProgress(loaded, store, path) == load_from_gcs(store, path, TRUE)

\* existing_progress at line 184: what the call loaded at line 149, whatever
\* the store holds by then
existing_progress(loaded, store, path) == loaded

\* save_progress up to the return of load_from_gcs
BeginSaveProgress(p, session_id, question_number, question_text) ==
    /\ pending[p].save.pc = "idle"
    /\ pending' = [pending EXCEPT ![p].save =
                      [pc |-> "loaded", sid |-> session_id,
                       number |-> question_number, question |-> question_text,
                       loaded |-> load_from_gcs(gcs, ProgressPath(session_id), TRUE)]]
    /\ lastOp' = [op |-> "save_progress_load", sid |-> session_id, caller |-> p]
    /\ UNCHANGED <<bridgeVars, gcs, now, uploads, scoreVars>>

\* save_progress from the merge to its return
EndSaveProgress(p) ==
    /\ pending[p].save.pc = "loaded"
    /\ LET c == pending[p].save
           path == ProgressPath(c.sid)
       IN  /\ gcs' = save_to_gcs(gcs,
                        ProgressRecord(existing_progress(c.loaded, gcs, path),
                                       c.sid, c.number, c.question, FALSE, None, 12, now),
                        path, TRUE)
           /\ pending' = [pending EXCEPT ![p].save.pc = "stored"]
           /\ lastOp' = [op |-> "save_progress_store", sid |-> c.sid, caller |-> p]
    /\ UNCHANGED <<bridgeVars, now, uploads, scoreVars>>

\* first turn of call_session_agent up to the await of async_create_session:
\* the agent service creates the remote session
BeginFirstCall(p, bsid) ==
    /\ pending[p].call.pc = "idle"
    /\ nextRemote <= MaxRemote
    /\ nextRemote' = nextRemote + 1
    /\ createdFor' = [createdFor EXCEPT ![bsid] = Append(@, RemoteId(nextRemote))]
    /\ pending' = [pending EXCEPT ![p].call =
                      [pc |-> "created", sid |-> bsid,
                       adk_session_id |-> RemoteId(nextRemote)]]
    /\ lastOp' = [op |-> "first_call_create", sid |-> bsid, caller |-> p]
    /\ UNCHANGED <<adk_session_store, gcs, now, uploads, scoreVars>>

\* the creation has returned: the id is bound and the stream query is sent
\* to the session the call created
BindFirstCall(p) ==
    /\ pending[p].call.pc = "created"
    /\ LET c == pending[p].call
       IN  /\ adk_session_store' = Put(adk_session_store, c.sid, c.adk_session_id)
           /\ pending' = [pending EXCEPT ![p].call =
                             [pc |-> "querying", sid |-> c.sid,
                              adk_session_id |-> c.adk_session_id,
                              queried |-> c.adk_session_id]]
           /\ lastOp' = [op |-> "first_call_bind", sid |-> c.sid, caller |-> p]
    /\ UNCHANGED <<nextRemote, createdFor, gcs, now, uploads, scoreVars>>

\* the stream query has ended: the call returns or raises
EndFirstCall(p, reply) ==
    /\ pending[p].call.pc = "querying"
    /\ LET c == pending[p].call
       IN  /\ pending' = [pending EXCEPT ![p].call =
                             [pc |-> "done", sid |-> c.sid,
                              adk_session_id |-> c.adk_session_id,
                              queried |-> c.queried,
                              result |-> StreamOutcome(reply)]]
           /\ lastOp' = [op |-> "first_call_end", sid |-> c.sid, caller |-> p]
    /\ UNCHANGED <<bridgeVars, gcs, now, uploads, scoreVars>>

(***************************************************************************)
(* Specifications.                                                         *)
(***************************************************************************)
Texts == {"Qa", "Qb"}
Answers == {None, "Aa"}
Targets == {1, 12}
Suffixes == {".mp4", ".webm"}

\* the Session Bridge under its two handlers
NextBridge ==
    \/ \E s \in Sessions, env \in AgentEnvs : start_interview(s, env)
    \/ \E s \in Sessions, uploadOk, sttOk, tts \in BOOLEAN, reply \in AgentReplies :
          upload_answer(s, 1, ".mp4", uploadOk, TRUE, TRUE, sttOk,
                        [create |-> TRUE, reply |-> reply, tts |-> tts])

SpecBridge == Init /\ [][NextBridge]_vars

\* the Progress Tracker; a save_progress call meets no storage fault, a
\* failed read or a failed write
NextProgress ==
    \/ \E n \in QNums, q \in Texts, a \in Answers, tt \in Targets,
          fault \in {"none", "read", "write"} :
          SaveProgress("session_0", n, q, FALSE, a, tt, fault # "read", fault # "write")
    \/ \E n \in QNums, readOk, writeOk \in BOOLEAN :
          AttachMedia("session_0", n, ".webm", readOk, writeOk)

SpecProgress == Init /\ [][NextProgress]_vars

\* one interview turn after another on one session: the agent's save_progress
\* of a question, POST /start, and POST /upload-answer under every failure of
\* the upload, of the storage behind the media attachment and of the
\* transcription
NextTurn ==
    \/ \E n \in QNums :
          SaveProgress("session_0", n, "Qa", FALSE, None, 12, TRUE, TRUE)
    \/ start_interview("session_0", [create |-> TRUE, tts |-> TRUE,
                                     reply |-> Stream(<<EventText("json", ContinueReply)>>)])
    \/ \E n \in QNums, uploadOk, readOk, writeOk, sttOk \in BOOLEAN,
          reply \in {Stream(<<EventText("json", ContinueReply)>>),
                     Stream(<<EventText("none", CompletedReply)>>)} :
          upload_answer("session_0", n, ".webm", uploadOk, readOk, writeOk, sttOk,
                        [create |-> TRUE, tts |-> TRUE, reply |-> reply])

SpecTurn == Init /\ [][NextTurn]_vars

\* payloads of save_feedback_to_gcs: an entry for question 1, a final entry
\* for question 2, an entry without questionId, and text that is not JSON
Payloads ==
    { [questionId |-> 1, langfeedback |-> "La"],
      [questionId |-> 2, langfeedback |-> "Lb", general_feedback |-> "G", totalScore |-> 80],
      [langfeedback |-> "Lc", pro |-> "P"],
      InvalidJson }

\* the Feedback Aggregator
NextFeedback ==
    \/ \E n \in QNums, p \in Payloads, is_final, readOk, writeOk \in BOOLEAN :
          SaveFeedback("session_0", n, p, is_final, TRUE, readOk, writeOk)
    \/ \E n \in QNums, p \in Payloads, is_final \in BOOLEAN :
          SaveFeedback("session_0", n, p, is_final, FALSE, TRUE, TRUE)

SpecFeedback == Init /\ [][NextFeedback]_vars

\* the Feedback Aggregator where a call can fail: the storage client present
\* or not, a payload that parses or not, a write that succeeds or not, while
\* every read of the stored record succeeds
NextReport ==
    \/ \E n \in QNums, p \in Payloads, writeOk \in BOOLEAN :
          SaveFeedback("session_0", n, p, n = 2, TRUE, TRUE, writeOk)
    \/ \E n \in QNums, p \in Payloads :
          SaveFeedback("session_0", n, p, n = 2, FALSE, TRUE, TRUE)

SpecReport == Init /\ [][NextReport]_vars

\* the Progress Record of the session whose resume was uploaded first: the
\* resume upload, start_interview_session, and the calls that fill the record,
\* one after the other and with the storage working
NextSession ==
    \/ \E analysis \in {"missing", "ok"} :
          generate_questions([pdfName |-> TRUE, content |-> "pdf"], analysis)
    \/ \E tt \in Targets, readOk, writeOk \in BOOLEAN :
          StartInterviewSession(SessionId(0), tt, readOk, writeOk)
    \/ \E n \in QNums, q \in Texts, a \in Answers :
          SaveProgress(SessionId(0), n, q, FALSE, a, 12, TRUE, TRUE)
    \/ \E n \in QNums : AttachMedia(SessionId(0), n, ".webm", TRUE, TRUE)

SpecSession == Init /\ [][NextSession]_vars

\* two turns of one session served at the same time: each caller saves the
\* progress of its own question and makes a first-turn call
NextRace ==
    \/ \E p \in Callers, q \in Texts : BeginSaveProgress(p, "session_0", p, q)
    \/ \E p \in Callers : EndSaveProgress(p)
    \/ \E p \in Callers : BeginFirstCall(p, "session_0")
    \/ \E p \in Callers : BindFirstCall(p)
    \/ \E p \in Callers, reply \in {StreamRaises, Stream(<<EventText("json", ContinueReply)>>)} :
          EndFirstCall(p, reply)

SpecRace == Init /\ [][NextRace]_vars

\* the Feedback Aggregator as the clock advances: folds of an entry and of a
\* final entry with summary fields, the stored record read or not
NextFold ==
    \/ Tick
    \/ \E p \in {[questionId |-> 1, langfeedback |-> "La"],
                  [questionId |-> 2, langfeedback |-> "Lb",
                   general_feedback |-> "G", totalScore |-> 80]},
          is_final, readOk \in BOOLEAN :
          SaveFeedback("session_0", p.questionId, p, is_final, TRUE, readOk, TRUE)

SpecFold == Init /\ [][NextFold]_vars

\* the scoring of the final feedback entry
NextScore ==
    \/ \E v \in MinSubScore..MaxSubScore : AddSubScore(v)
    \/ ComputeTotalScore

SpecScore == Init /\ [][NextScore]_vars

\* resume uploads as the clock advances
NextUpload ==
    \/ Tick
    \/ \E resume_file \in ResumeFiles, analysis \in AnalysisOutcomes :
          generate_questions(resume_file, analysis)

SpecUpload == Init /\ [][NextUpload]_vars

\* the handlers and the tools together, for two sessions
Next ==
    \/ \E s \in Sessions :
          start_interview(s, [create |-> TRUE, tts |-> TRUE,
                             reply |-> Stream(<<EventText("json", ContinueReply)>>)])
    \/ \E s \in Sessions :
          upload_answer(s, 1, ".webm", TRUE, TRUE, TRUE, TRUE,
                        [create |-> TRUE, tts |-> TRUE,
                         reply |-> Stream(<<EventText("json", ContinueReply)>>)])
    \/ \E s \in Sessions, readOk \in BOOLEAN :
          SaveProgress(s, 1, "Qa", FALSE, "Aa", 12, readOk, TRUE)
    \/ \E s \in Sessions, readOk \in BOOLEAN :
          SaveFeedback(s, 1, [questionId |-> 1, langfeedback |-> "La"],
                       TRUE, TRUE, readOk, TRUE)

Spec == Init /\ [][Next]_vars

(***************************************************************************)
(* Properties of the Session Bridge (SpecBridge).                          *)
(***************************************************************************)

\* the upload_answer call reached call_session_agent
ReachedAgent(op) ==
    op.op = "upload_answer"
    /\ op.result \notin {"upload_error", "attach_error", "stt_error"}

\* C1: once a first-turn call for a session has stored remote id r, a later
\* non-first call for that session queries the agent with exactly r, the id
\* stored by the most recent first-turn call.
C1_ReuseStoredSession ==
    (ReachedAgent(lastOp) /\ createdFor[lastOp.sid] # <<>>)
        => lastOp.queried = Last(createdFor[lastOp.sid])

C1_Witness ==
    /\ ReachedAgent(lastOp)
    /\ createdFor[lastOp.sid] # <<>>
    /\ lastOp.queried # None
    /\ \E s \in Sessions : s # lastOp.sid /\ createdFor[s] # <<>>

C3_CreatedOnce == \A s \in SessionIds : Len(createdFor[s]) <= 1

\* C3 as amended: the binding of a session is the remote session created last
\* for it (none if none was created) ...
C3_BindingIsLatest ==
    \A s \in SessionIds :
        StoredSession(adk_session_store, s) =
            IF createdFor[s] = <<>> THEN None ELSE Last(createdFor[s])

\* ... and a step creates a remote session for s exactly when it is a
\* start_interview for s whose session creation succeeded; it then creates
\* one.  upload_answer creates none.
C3_CreationStep ==
    \A s \in SessionIds :
        createdFor'[s] =
            IF /\ lastOp'.op = "start_interview"
               /\ lastOp'.sid = s
               /\ lastOp'.result # "create_error"
            THEN Append(createdFor[s], RemoteId(nextRemote))
            ELSE createdFor[s]

C3_OnePerStart == []C3_BindingIsLatest /\ [][C3_CreationStep]_vars

C3_Witness ==
    /\ lastOp.op = "start_interview"
    /\ Len(createdFor[lastOp.sid]) >= 2
    /\ lastOp.created = Last(createdFor[lastOp.sid])

\* the request was handled by start_interview or upload_answer
IsTurn(op) == op.op \in {"start_interview", "upload_answer"}

\* the turn invoked the stream query and the query returned its events
Streamed(op) == IsTurn(op) /\ op.queried # None /\ op.reply.streamed

\* C13: call_session_agent fails with the empty-response error whenever the
\* stream yields zero events, and then returns no parsed response.
C13_EmptyResponse ==
    (Streamed(lastOp) /\ lastOp.reply.events = <<>>)
        => /\ lastOp.result = "empty_response"
           /\ lastOp.parsed = NoneDict
           /\ lastOp.http = 500

C13_Witness ==
    /\ Streamed(lastOp)
    /\ lastOp.reply.events = <<>>
    /\ lastOp.op = "upload_answer"
    /\ lastOp.queried = "adk_2"

\* C14 as stated: the last event's text is parsed after a fenced code block
\* wrapper, of any kind, is stripped: JSON that is bare or fenced is
\* returned, and text that is not JSON fails with a parse error.
C14_AnyFenceStripped ==
    (Streamed(lastOp) /\ lastOp.reply.events # <<>>)
        => LET text == Last(lastOp.reply.events) IN
           IF text.body \in JsonBodies
           THEN lastOp.parsed = text.body
           ELSE lastOp.result = "parse_error" /\ lastOp.parsed = NoneDict

\* C14 as amended: only the last event's text is parsed; a wrapper fenced as
\* json is stripped first; JSON that is bare or inside such a wrapper is
\* returned, and any other text, JSON inside a fence without the json tag
\* included, fails with a parse error and returns no value.
C14_JsonFenceStripped ==
    (Streamed(lastOp) /\ lastOp.reply.events # <<>>)
        => LET text == Last(lastOp.reply.events) IN
           IF text.body \in JsonBodies /\ text.fence \in {"none", "json"}
           THEN lastOp.parsed = text.body /\ lastOp.result # "parse_error"
           ELSE lastOp.result = "parse_error" /\ lastOp.parsed = NoneDict

C14_Witness ==
    /\ Streamed(lastOp)
    /\ Len(lastOp.reply.events) = 2
    /\ lastOp.reply.events[1] = EventText("none", CompletedReply)
    /\ lastOp.reply.events[2] = EventText("json", ContinueReply)
    /\ lastOp.parsed = ContinueReply

C16_CompletedIsTerminal ==
    [][(/\ lastOp.op = "upload_answer"
        /\ lastOp.http = 200
        /\ lastOp.response.status = "completed"
        /\ IsTurn(lastOp')
        /\ lastOp'.sid = lastOp.sid)
       => ~(/\ lastOp'.http = 200
            /\ lastOp'.response.status # "completed")]_vars

C18_FirstTurnRebinds ==
    [][(lastOp'.op = "start_interview" /\ lastOp'.result # "create_error")
       => (/\ lastOp'.created = RemoteId(nextRemote)
           /\ \A s \in SessionIds :
                 \A i \in 1..Len(createdFor[s]) : createdFor[s][i] # lastOp'.created
           /\ StoredSession(adk_session_store', lastOp'.sid) = lastOp'.created
           /\ lastOp'.queried = lastOp'.created)]_vars

C18_Witness ==
    /\ lastOp.op = "start_interview"
    /\ Len(createdFor[lastOp.sid]) = 2
    /\ StoredSession(adk_session_store, lastOp.sid) = createdFor[lastOp.sid][2]
    /\ createdFor[lastOp.sid][1] # createdFor[lastOp.sid][2]
    /\ lastOp.result = "parse_error"

\* C29: the binding map changes only in a first-turn call whose session
\* creation succeeded. A later-turn call and a first-turn call whose creation
\* fails leave it as it was; a first-turn call whose creation succeeded leaves
\* the new binding in the map even when the stream query, the empty-response
\* check or the parsing then fails.
C29_BindingFrame ==
    [][IsTurn(lastOp') =>
        /\ adk_session_store' # adk_session_store
              => (lastOp'.op = "start_interview" /\ lastOp'.created # None)
        /\ lastOp'.op = "upload_answer" => adk_session_store' = adk_session_store
        /\ lastOp'.result = "create_error" => adk_session_store' = adk_session_store
        /\ (lastOp'.op = "start_interview" /\ lastOp'.created # None)
              => adk_session_store' = Put(adk_session_store, lastOp'.sid, lastOp'.created)]_vars

\* a first turn that failed on an empty stream has replaced the binding of
\* its session, the other session keeps its own
C29_Witness ==
    /\ lastOp.op = "start_interview"
    /\ lastOp.result = "empty_response"
    /\ lastOp.http = 500
    /\ StoredSession(adk_session_store, lastOp.sid) = lastOp.created
    /\ Len(createdFor[lastOp.sid]) = 2
    /\ \E s \in Sessions :
          /\ s # lastOp.sid
          /\ StoredSession(adk_session_store, s) \notin {None, lastOp.created}

(***************************************************************************)
(* Properties of the Progress Tracker (SpecProgress).                      *)
(***************************************************************************)
\* C4 as stated: the stored Progress Record has askedQuestions =
\* length(questions) and remainingSlots = max(targetTotal - askedQuestions, 0),
\* targetTotal being the record's own field, whatever target_total the calls pass.
C4_DerivedCounters ==
    \A s \in Sessions :
        (lastOp.op = "save_progress" /\ HasKey(gcs, ProgressPath(s)))
            => LET rec == gcs[ProgressPath(s)] IN
               /\ rec.askedQuestions = Len(rec.questions)
               /\ rec.remainingSlots = Max(rec.targetTotal - rec.askedQuestions, 0)

\* the entry numbered op.number of questions has the fields of call op
HasFieldsOf(questions, op) ==
    LET i == FindNumber(questions, op.number) IN
    /\ i # 0
    /\ questions[i].number = op.number
    /\ questions[i].question = op.question
    /\ questions[i].isTailQuestion = op.isTailQuestion
    /\ questions[i].answer = op.answer

\* C5 as stated, once the first of the two calls has stored the entry with
\* its fields: a save_progress call that repeats the call before it (same
\* session, number and fields) leaves the number of entries unchanged, and
\* the entry still has the number, question, isTailQuestion and answer of the call.
C5_IdempotentMerge ==
    [][(/\ lastOp'.op = "save_progress"
        /\ lastOp'.repeat
        /\ HasFieldsOf(ProgressQuestions(gcs, lastOp'.sid), lastOp'))
       => (/\ Len(ProgressQuestions(gcs', lastOp'.sid))
                = Len(ProgressQuestions(gcs, lastOp'.sid))
           /\ HasFieldsOf(ProgressQuestions(gcs', lastOp'.sid), lastOp'))]_vars

\* C6: update_progress_video_url for a session without a Progress Record
\* returns without raising and leaves the session without a record.
C6_AttachWithoutRecord ==
    [][(lastOp'.op = "update_progress_video_url"
        /\ ~HasKey(gcs, ProgressPath(lastOp'.sid)))
       => (lastOp'.attach = "returned"
           /\ ~HasKey(gcs', ProgressPath(lastOp'.sid)))]_vars

C6_Witness ==
    /\ lastOp.op = "update_progress_video_url"
    /\ lastOp.attach = "returned"
    /\ ~HasKey(gcs, ProgressPath(lastOp.sid))

(***************************************************************************)
(* Properties of the Feedback Aggregator (SpecFeedback).                   *)
(***************************************************************************)
\* b has every field of a, with the same value
Contains(b, a) == \A k \in DOMAIN a : HasKey(b, k) /\ b[k] = a[k]

\* the number of entries that hold the payload
EntriesHolding(questions, payload) ==
    Cardinality({i \in 1..Len(questions) : Contains(questions[i], payload)})

\* C7 as stated: a save_feedback_to_gcs call with is_final true that repeats
\* the successful call before it (same session, question_number and payload)
\* leaves the stored record as the first call left it, with exactly one entry
\* for the question and the summary fields of the payload promoted.
C7_FoldTwice ==
    [][(/\ lastOp'.op = "save_feedback_to_gcs"
        /\ lastOp'.final
        /\ lastOp'.repeat
        /\ lastOp'.result = "saved")
       => (/\ gcs'[FeedbackPath(lastOp'.sid)] = gcs[FeedbackPath(lastOp'.sid)]
           /\ EntriesHolding(FeedbackQuestions(gcs', lastOp'.sid), lastOp'.payload) = 1
           /\ \A k \in {"general_feedback", "pro", "con", "totalScore"} :
                 HasKey(lastOp'.payload, k)
                    => /\ HasKey(gcs'[FeedbackPath(lastOp'.sid)].at, k)
                       /\ gcs'[FeedbackPath(lastOp'.sid)].at[k] = lastOp'.payload[k])]_vars

\* C21 as stated: after a save_feedback_to_gcs call that read and wrote the
\* storage without a fault the stored aggregate record holds at most one entry per questionId, and a call whose
\* question_number matches an entry merges the payload's fields into that
\* entry (the payload's fields replace, the others stay) without appending.
C21_OneEntryPerQuestionId ==
    [][(lastOp'.op = "save_feedback_to_gcs" /\ lastOp'.result = "saved"
        /\ lastOp'.readOk) =>
        LET old == FeedbackQuestions(gcs, lastOp'.sid)
            new == FeedbackQuestions(gcs', lastOp'.sid)
            i == FindQuestionId(old, lastOp'.number)
        IN  /\ \A j, k \in 1..Len(new) :
                  (/\ j # k
                   /\ HasKey(new[j], "questionId")
                   /\ HasKey(new[k], "questionId"))
                      => new[j].questionId # new[k].questionId
            /\ i # 0 => new = [old EXCEPT ![i] = Update(old[i], lastOp'.payload)]]_vars

\* the top-level fields a final fold promotes
PromotedFields == {"general_feedback", "pro", "con", "totalScore"}

\* the stored aggregate feedback record of a session, a record without keys
\* if there is none
FeedbackTop(store, session_id) ==
    IF HasKey(store, FeedbackPath(session_id))
    THEN store[FeedbackPath(session_id)]
    ELSE [order |-> <<>>, at |-> EmptyDict]

\* field k is the same, or absent, in records a and b
SameField(a, b, k) ==
    /\ HasKey(a.at, k) <=> HasKey(b.at, k)
    /\ HasKey(a.at, k) => a.at[k] = b.at[k]

\* C22 as stated: a final fold leaves createdAt as the record's last key
\* with the value it had when the record was created and writes to the top
\* level only the promoted fields the payload has; a fold that is not final
\* changes no top-level field except questions.
C22_FinalFoldFrame ==
    [][(lastOp'.op = "save_feedback_to_gcs" /\ lastOp'.result = "saved") =>
        LET old == FeedbackTop(gcs, lastOp'.sid)
            new == FeedbackTop(gcs', lastOp'.sid)
        IN  /\ HasKey(old.at, "createdAt") => new.at.createdAt = old.at.createdAt
            /\ lastOp'.final =>
                  /\ Last(new.order) = "createdAt"
                  /\ \A k \in PromotedFields :
                        IF HasKey(lastOp'.payload, k)
                        THEN new.at[k] = lastOp'.payload[k]
                        ELSE SameField(old, new, k)
            /\ ~lastOp'.final /\ HasKey(gcs, FeedbackPath(lastOp'.sid)) =>
                  /\ new.order = old.order
                  /\ \A k \in PromotedFields \cup {"sessionId", "createdAt"} :
                        SameField(old, new, k)]_vars

\* C30: save_feedback_to_gcs never raises. With the storage client missing,
\* with a payload that is not valid JSON and with a failing storage write it
\* returns an error message, and in each of these cases the stored aggregate
\* feedback record is left as it was.
C30_FailureIsAMessage ==
    [][lastOp'.op = "save_feedback_to_gcs" =>
        /\ lastOp'.result \in {"no_client", "error", "saved"}
        /\ lastOp'.fault = "client" => lastOp'.result = "no_client"
        /\ lastOp'.fault \in {"payload", "write"} => lastOp'.result = "error"
        /\ lastOp'.fault # None => gcs' = gcs
        /\ lastOp'.fault = None => lastOp'.result = "saved"]_vars

\* a fold whose write failed, on a session that has a stored record
C30_Witness ==
    /\ lastOp.op = "save_feedback_to_gcs"
    /\ lastOp.fault = "write"
    /\ lastOp.result = "error"
    /\ Len(FeedbackQuestions(gcs, lastOp.sid)) = 1
    /\ FindQuestionId(FeedbackQuestions(gcs, lastOp.sid), lastOp.number) = 0

(***************************************************************************)
(* Properties of the scoring (SpecScore).                                  *)
(***************************************************************************)
Abs(x) == IF x < 0 THEN -x ELSE x

\* C8: totalScore is the nearest integer to sum / 120 x 100 for the sum of
\* twelve sub-scores in 1..10, it lies in 1..100, all tens give 100, all ones
\* give 10 and a sum of 96 gives 80.
C8_TotalScore ==
    totalScore # <<>>
        => /\ subSum \in (NumSubScores * MinSubScore)..(NumSubScores * MaxSubScore)
           /\ totalScore[1] \in 1..100
           /\ 2 * Abs(120 * totalScore[1] - 100 * subSum) <= 120
           /\ (subSum = 120 => totalScore[1] = 100)
           /\ (subSum = 12 => totalScore[1] = 10)
           /\ (subSum = 96 => totalScore[1] = 80)

C8_Witness == totalScore = <<80>> /\ subSum = 96 /\ subCount = NumSubScores

(***************************************************************************)
(* Properties across sessions (Spec).                                      *)
(***************************************************************************)
\* what is kept for session s: its binding, its Progress Record and its
\* aggregate feedback record
SessionState(store, bucket, s) ==
    [binding |-> StoredSession(store, s),
     progress |-> load_from_gcs(bucket, ProgressPath(s), TRUE),
     feedback |-> feedback_load_from_gcs(bucket, FeedbackPath(s), TRUE)]

\* C9: an operation on one session changes neither the binding nor the
\* Progress Record nor the feedback record of a session with another id.
C9_NoInterference ==
    [][\A s \in SessionIds :
          s # lastOp'.sid
             => SessionState(adk_session_store', gcs', s)
                   = SessionState(adk_session_store, gcs, s)]_vars

C9_Witness ==
    /\ lastOp.sid \in Sessions
    /\ \A s \in Sessions :
          /\ StoredSession(adk_session_store, s) # None
          /\ HasKey(gcs, ProgressPath(s))
          /\ HasKey(gcs, FeedbackPath(s))
    /\ \E s \in Sessions :
          /\ s # lastOp.sid
          /\ StoredSession(adk_session_store, s) # StoredSession(adk_session_store, lastOp.sid)
          /\ gcs[ProgressPath(s)].questions # gcs[ProgressPath(lastOp.sid)].questions

\* C19 as stated, on the stored Progress Record: a save_progress call for a
\* number the record already holds overwrites that entry's answer and
\* answeredAt only when answer text is given and leaves its other fields and
\* every other entry as they were; for a number the record does not hold it
\* appends exactly one entry with the given fields.
C19_FindOrCreate ==
    [][lastOp'.op = "save_progress" =>
        LET old == ProgressQuestions(gcs, lastOp'.sid)
            new == ProgressQuestions(gcs', lastOp'.sid)
            i == FindNumber(old, lastOp'.number)
        IN  IF i # 0
            THEN /\ Len(new) = Len(old)
                 /\ \A j \in 1..Len(old) : j # i => new[j] = old[j]
                 /\ new[i] = IF Provided(lastOp'.answer)
                             THEN Put(Put(old[i], "answer", lastOp'.answer),
                                      "answeredAt", IsoFormat(now))
                             ELSE old[i]
            ELSE new = Append(old, NewQuestion(lastOp'.number, lastOp'.question,
                                               lastOp'.isTailQuestion,
                                               lastOp'.answer, now))]_vars

\* C20: an upload_answer call never fails because of the media attachment:
\* once the video is uploaded, update_progress_video_url returns whatever
\* happens inside it (no record, no entry, a failed read or write) and the
\* handler goes on to the transcription and the agent call; when the record
\* exists and holds no entry of the given number the stored record is left
\* as it was.
C20_AttachmentNeverAborts ==
    [][lastOp'.op = "upload_answer" =>
        /\ lastOp'.result # "attach_error"
        /\ lastOp'.result # "upload_error" => lastOp'.attach = "returned"
        /\ (/\ HasKey(gcs, ProgressPath(lastOp'.sid))
            /\ FindNumber(ProgressQuestions(gcs, lastOp'.sid), lastOp'.number) = 0)
              => gcs'[ProgressPath(lastOp'.sid)] = gcs[ProgressPath(lastOp'.sid)]]_vars

\* a turn answered by the agent although the record held no entry of the
\* answered number
C20_Witness ==
    /\ lastOp.op = "upload_answer"
    /\ lastOp.number = 2
    /\ lastOp.attach = "returned"
    /\ lastOp.http = 200
    /\ HasKey(gcs, ProgressPath(lastOp.sid))
    /\ FindNumber(ProgressQuestions(gcs, lastOp.sid), 2) = 0
    /\ HasKey(gcs, VideoPath(lastOp.sid, 2, ".webm"))

\* C24 as stated: whatever call is made, one after the other, on the session
\* (save_progress, update_progress_video_url, start_interview_session), every
\* entry of the stored Progress Record stays in it and the number of entries
\* does not decrease.
C24_EntriesNeverRemoved ==
    [][\A s \in Sessions :
          LET old == ProgressQuestions(gcs, s)
              new == ProgressQuestions(gcs', s)
          IN  /\ Len(new) >= Len(old)
              /\ \A i \in 1..Len(old) : FindNumber(new, old[i].number) # 0]_vars

\* C25: after any sequence of save_progress calls on a session that started
\* without a record, no two entries of the stored Progress Record have the
\* same number.
C25_UniqueNumbers ==
    \A s \in Sessions :
        LET questions == ProgressQuestions(gcs, s) IN
        \A i, j \in 1..Len(questions) :
            i # j => questions[i].number # questions[j].number

\* a call for a number the record already held, in a record of two entries
C25_Witness ==
    /\ lastOp.op = "save_progress"
    /\ lastOp.repeat
    /\ lastOp.number = 1
    /\ Len(ProgressQuestions(gcs, lastOp.sid)) = 2
    /\ ProgressQuestions(gcs, lastOp.sid)[1].number = 1
    /\ ProgressQuestions(gcs, lastOp.sid)[2].number = 2

\* the entry numbered question_number of the session's stored record has
\* the video of that number attached
VideoAttached(store, session_id, question_number, ext) ==
    LET questions == ProgressQuestions(store, session_id)
        i == FindNumber(questions, question_number)
    IN  /\ i # 0
        /\ questions[i].videoUrl = VideoUri(session_id, question_number, ext)

\* C26: an upload_answer call runs its steps in the order media upload, media
\* attachment, transcription, agent call, response, each begun only when the
\* one before has returned: nothing is stored when the upload fails, the
\* video is already attached to the entry when the transcription fails, and
\* the agent is queried only when the transcription has succeeded.
C26_StepOrder ==
    [][lastOp'.op = "upload_answer" =>
        /\ lastOp'.steps = SubSeq(AnswerOrder, 1, Len(lastOp'.steps))
        /\ lastOp'.result = "upload_error" => gcs' = gcs
        /\ lastOp'.result = "stt_error" =>
              /\ lastOp'.steps = <<"upload", "attach", "stt">>
              /\ HasKey(gcs', VideoPath(lastOp'.sid, lastOp'.number, ".webm"))
              /\ (lastOp'.stored
                  /\ FindNumber(ProgressQuestions(gcs, lastOp'.sid), lastOp'.number) # 0)
                    => VideoAttached(gcs', lastOp'.sid, lastOp'.number, ".webm")
        /\ lastOp'.queried # None => ReachedAgent(lastOp')
        /\ ReachedAgent(lastOp') =>
              /\ SubSeq(lastOp'.steps, 1, 4) = <<"upload", "attach", "stt", "agent">>
              /\ lastOp'.http = 200 <=> Last(lastOp'.steps) = "response"
        /\ ~ReachedAgent(lastOp') =>
              <<adk_session_store', nextRemote', createdFor'>>
                 = <<adk_session_store, nextRemote, createdFor>>]_vars

\* the transcription failed after the video had been attached to its entry
C26_Witness ==
    /\ lastOp.op = "upload_answer"
    /\ lastOp.result = "stt_error"
    /\ lastOp.steps = <<"upload", "attach", "stt">>
    /\ VideoAttached(gcs, lastOp.sid, lastOp.number, ".webm")

\* C27 as stated: when save_progress returns, the counters it returns are
\* the counters of the Progress Record in storage, also when the storage
\* write failed.
C27_ReturnedCountersPersisted ==
    lastOp.op = "save_progress" =>
        /\ HasKey(gcs, ProgressPath(lastOp.sid))
        /\ LET rec == gcs[ProgressPath(lastOp.sid)] IN
           /\ rec.currentQuestion = lastOp.returned.currentQuestion
           /\ rec.totalQuestions = lastOp.returned.totalQuestions
           /\ rec.askedQuestions = lastOp.returned.askedQuestions
           /\ rec.remainingSlots = lastOp.returned.remainingSlots

\* C28 as stated: save_progress on a session whose record exists in storage
\* never replaces it by a newly initialized record holding only the question
\* of the call, also when reading the record fails: every entry of the
\* record is still there after the call.
C28_NoReinitialisation ==
    [][(lastOp'.op = "save_progress" /\ HasKey(gcs, ProgressPath(lastOp'.sid))) =>
        LET old == gcs[ProgressPath(lastOp'.sid)]
            new == gcs'[ProgressPath(lastOp'.sid)]
        IN  /\ new.startTime = old.startTime
            /\ new.targetTotal = old.targetTotal
            /\ \A i \in 1..Len(old.questions) :
                  FindNumber(new.questions, old.questions[i].number) # 0]_vars

(***************************************************************************)
(* Properties of calls served at the same time (SpecRace).                 *)
(***************************************************************************)
\* C23: the last writer wins. The record a save_progress call stores is built
\* from what that call loaded, so it holds the entry of the other caller only
\* if the other caller had stored before this one loaded; and a first-turn
\* call queries the remote session it created itself, while the binding is
\* the id bound last.
C23_LastWriterWins ==
    /\ \A p \in Callers :
          (lastOp.op = "save_progress_store" /\ lastOp.caller = p)
             => LET c == pending[p].save IN
                /\ ProgressQuestions(gcs, c.sid)
                      = MergeQuestion(IF Truthy(c.loaded) THEN c.loaded.questions ELSE <<>>,
                                      c.number, c.question, FALSE, None, now)
                /\ \A q \in Callers \ {p} :
                      FindNumber(ProgressQuestions(gcs, c.sid), q) # 0
                         <=> (Truthy(c.loaded) /\ FindNumber(c.loaded.questions, q) # 0)
    /\ \A p \in Callers :
          pending[p].call.pc \in {"querying", "done"}
             => /\ pending[p].call.queried = pending[p].call.adk_session_id
                /\ StoredSession(adk_session_store, pending[p].call.sid)
                      \in {pending[q].call.adk_session_id :
                              q \in {r \in Callers : pending[r].call.pc \in {"querying", "done"}}}
    /\ (lastOp.op = "first_call_bind")
          => StoredSession(adk_session_store, lastOp.sid)
                = pending[lastOp.caller].call.adk_session_id

\* both callers have saved distinct questions and the record holds one entry;
\* both first-turn calls have returned and one of them queried a remote
\* session that is not the bound one
C23_Witness ==
    /\ \A p \in Callers : pending[p].save.pc = "stored" /\ pending[p].call.pc = "done"
    /\ pending[1].save.number # pending[2].save.number
    /\ Len(ProgressQuestions(gcs, "session_0")) = 1
    /\ \E p \in Callers :
          /\ pending[p].call.result = "ok"
          /\ pending[p].call.queried # StoredSession(adk_session_store, "session_0")

(***************************************************************************)
(* Properties of the resume upload (SpecUpload).                           *)
(***************************************************************************)
\* C10 as stated: two accepted resume uploads never get the same sessionId,
\* whatever their timing, so their stored files never share a path.
C10_UniqueSessionIds ==
    \A i, j \in 1..Len(uploads) :
        i # j => /\ uploads[i].sessionId # uploads[j].sessionId
                 /\ uploads[i].pdf_path # uploads[j].pdf_path

\* C11 as stated: generate_questions on a file that is empty or is not a PDF
\* answers 400 and changes nothing: no session id, nothing stored, no agent
\* call.
C11_InvalidFileRejected ==
    [][(/\ lastOp'.op = "generate_questions"
        /\ \/ ~lastOp'.resume_file.pdfName
           \/ lastOp'.resume_file.content # "pdf")
       => /\ lastOp'.http = 400
          /\ lastOp'.sid = None
          /\ ~lastOp'.agentCalled
          /\ gcs' = gcs]_vars

\* C12: generate_questions answers with success only if the analysis file of
\* its session exists at the one existence check made after the wait; when the
\* agent has run and the file is absent at that check the request fails with
\* 500 after exactly one check, even if the file is written afterwards.
C12_SingleExistenceCheck ==
    lastOp.op = "generate_questions" =>
        /\ lastOp.http = 200 => lastOp.atCheck /\ lastOp.checks = 1
        /\ (lastOp.agentCalled /\ lastOp.analysis # "agent_error" /\ ~lastOp.atCheck)
              => lastOp.http = 500 /\ lastOp.checks = 1

\* the analysis file lands after the check: the request has failed, the file
\* is in the bucket
C12_Witness ==
    /\ lastOp.op = "generate_questions"
    /\ lastOp.analysis = "late"
    /\ ~lastOp.atCheck
    /\ lastOp.http = 500
    /\ HasKey(gcs, AnalysisPath(lastOp.sid))

====
